---- MODULE Spec2Model ----
(***************************************************************************)
(* Model of the voter-facing voting backend src/app_votingsys.py:          *)
(* verification by secret code or face, the ballot page and the vote       *)
(* submission transaction against the relational store, and the numeric    *)
(* sort of the flat numbers shown by get_society_details.                  *)
(*                                                                         *)
(* The store is PostgreSQL reached through psycopg2: every request opens   *)
(* its own connection, statements of one request see the rows committed    *)
(* so far (READ COMMITTED) plus the request's own pending writes, a write  *)
(* locks its row until the transaction ends, and a request's writes        *)
(* become visible to the others only at conn.commit().                     *)
(***************************************************************************)
EXTENDS Integers, Sequences, FiniteSets, TLC

\* ---------------------------------------------------------------- bounds
MaxTime == 2        \* the clock runs over 0..MaxTime (half-hour ticks)
MaxArr == 3         \* numeric_sort is called with lists of at most MaxArr values

\* ---------------------------------------------------------------- values
Null == "NULL"              \* SQL NULL / Python None of a text value
None == << >>               \* SQL NULL / Python None of a timestamp
Some(t) == << t >>          \* a timestamp that is present

Present(x) == x # Null      \* Python truthiness of a request field

Clients == {"c1"}
Slots == {1, 2}          \* submit_vote requests that can be in flight together
Times == 0..MaxTime
Societies == {"S1", "S2", "S3", "S4"}
HouseholdIds == {"H1", "H2", "H3", "H4", "H5", "H6"}
Candidates == {"Alice", "Bob"}
TowerValues == {"T1", "T2", Null}

\* ------------------------------------------------------- the stored rows
\* Columns of table households that no voter-facing request writes;
\* is_admin_blocked and is_vote_allowed are the values at the start (the
\* administrative surface can change them).
household_rows ==
    [h \in HouseholdIds |->
        CASE h = "H1" -> [society_name |-> "S1", tower |-> "T1", flat |-> "F1",
                          lane |-> Null, house_number |-> Null, secret_code |-> "c1",
                          face_recognition_image |-> "faceH1",
                          is_admin_blocked |-> FALSE, is_vote_allowed |-> TRUE]
          [] h = "H2" -> [society_name |-> "S1", tower |-> Null, flat |-> "F2",
                          lane |-> Null, house_number |-> Null, secret_code |-> "c2",
                          face_recognition_image |-> "faceH2",
                          is_admin_blocked |-> FALSE, is_vote_allowed |-> TRUE]
          [] h = "H3" -> [society_name |-> "S1", tower |-> Null, flat |-> Null,
                          lane |-> Null, house_number |-> Null, secret_code |-> "c1",
                          face_recognition_image |-> Null,
                          is_admin_blocked |-> FALSE, is_vote_allowed |-> TRUE]
          [] h = "H4" -> [society_name |-> "S2", tower |-> "T2", flat |-> "F1",
                          lane |-> Null, house_number |-> Null, secret_code |-> "c1",
                          face_recognition_image |-> "faceH4",
                          is_admin_blocked |-> TRUE, is_vote_allowed |-> FALSE]
          [] h = "H5" -> [society_name |-> "S2", tower |-> "T2", flat |-> "F2",
                          lane |-> Null, house_number |-> Null, secret_code |-> "c2",
                          face_recognition_image |-> "faceH5",
                          is_admin_blocked |-> FALSE, is_vote_allowed |-> TRUE]
          [] h = "H6" -> [society_name |-> "S2", tower |-> "T1", flat |-> "F1",
                          lane |-> Null, house_number |-> Null, secret_code |-> "c1",
                          face_recognition_image |-> "faceH6",
                          is_admin_blocked |-> FALSE, is_vote_allowed |-> FALSE]]

\* Table settings: the columns submit_vote and ballot read (voted_count is a
\* variable).
\* S2 has no row.
settings_rows == [s \in {"S1"} |-> [max_voters |-> 2, max_candidates_selection |-> 1]]

\* Table voting_schedule.  The times are stored as ISO-8601 text with a
\* trailing Z.  S3 has a row that lacks a time; S4 has no row.
IsoZ(t) == [iso |-> t, zone |-> "Z"]
schedule_rows ==
    [s \in {"S1", "S2", "S3"} |->
        CASE s = "S1" -> [start_time |-> Some(IsoZ(0)), end_time |-> Some(IsoZ(2))]
          [] s = "S2" -> [start_time |-> Some(IsoZ(1)), end_time |-> Some(IsoZ(2))]
          [] s = "S3" -> [start_time |-> Some(IsoZ(1)), end_time |-> None]]

\* Key of a row of table votes; is_archived is 0 in every row written here.
TallyKeys == [society_name : Societies, tower : TowerValues, contestant_name : Candidates]

VARIABLES
    now,            \* datetime.now(pytz.utc), in ticks
    nulls_distinct, \* whether the unique index of votes treats NULL towers as distinct
    households,     \* households.voted_in_cycle, households.voted_at (committed)
    voted_count,    \* settings.voted_count per society (committed)
    votes,          \* votes.vote_count of the rows of each key (committed)
    session,        \* the Flask session cookie of each client
    tx,             \* the submit_vote request running in each slot, with its
                    \* connection (Null: none, or closed)
    accepted,       \* per household: submit_vote requests answered with success
    picks,          \* per tally key: selections made by the accepted requests
    is_admin_blocked,   \* households.is_admin_blocked
    is_vote_allowed,    \* households.is_vote_allowed
    arr,            \* the argument of a call of numeric_sort
    sorted_arr      \* the state of the call and the list it returned

vars == << now, nulls_distinct, households, voted_count, votes,
           session, tx, accepted, picks,
           is_admin_blocked, is_vote_allowed, arr, sorted_arr >>

db == << households, voted_count, votes >>
env == << now, nulls_distinct >>
gate == << is_admin_blocked, is_vote_allowed >>
sort == << arr, sorted_arr >>

\* ------------------------------------------------------------- constants
NoBinding == [household_id |-> Null, society_name |-> Null]

IdleTx == [pc |-> "idle", conn |-> Null, client |-> Null, household_id |-> Null,
           society |-> Null, selected |-> << >>, idx |-> 0, tower |-> Null]

\* ------------------------------------------------------------ conversions
\* datetime.fromisoformat(text.replace('Z', '+00:00')): the UTC instant.
fromisoformat(text) == text.iso

\* voted_at.astimezone(IST).strftime('%d-%m-%Y %I:%M:%S %p %Z') with half-hour
\* ticks: IST is UTC+05:30 (11 ticks), a day has 48 ticks, %I is the
\* 12-hour clock (12, 1, .., 11) and %p tells AM from PM.
strftime_ist(t) ==
    LET local == t + 11
        tick == local % 48
        hour == tick \div 2
    IN [day |-> local \div 48,
        hour12 |-> IF hour % 12 = 0 THEN 12 ELSE hour % 12,
        minute |-> (tick % 2) * 30,
        ampm |-> IF hour < 12 THEN "AM" ELSE "PM",
        zone |-> "IST"]

\* The instant a formatted proof timestamp denotes.
strptime_ist(p) ==
    LET hour == (p.hour12 % 12) + (IF p.ampm = "PM" THEN 12 ELSE 0)
    IN p.day * 48 + hour * 2 + (p.minute \div 30) - 11

\* ----------------------------------------------------------- numeric_sort
\* A text value is the sequence of its characters.  str.isdigit is true of
\* the decimal digits and of the other characters of Unicode category "digit"
\* (superscripts, circled digits: "sup2" stands for U+00B2); int() reads
\* decimal digits only.
DecimalDigits == {"0", "1", "3"}
OtherDigits == {"sup2"}
Letters == {"A", "B", "F"}
isdigit(ch) == ch \in DecimalDigits \cup OtherDigits
digit_value(ch) == CASE ch = "0" -> 0 [] ch = "1" -> 1 [] ch = "3" -> 3

\* int(s) of a non-empty text of isdigit characters: the number, or ValueError.
int_raises(s) == \E i \in DOMAIN s : s[i] \notin DecimalDigits
RECURSIVE int(_)
int(s) == IF s = << >> THEN 0
          ELSE 10 * int(SubSeq(s, 1, Len(s) - 1)) + digit_value(s[Len(s)])

\* Lines 38-40: ''.join(filter(str.isdigit, str(s))), int(s) if s else 0.
digits_of(s) == SelectSeq(s, isdigit)
parse_num_raises(s) == digits_of(s) # << >> /\ int_raises(digits_of(s))
parse_num(s) == IF digits_of(s) = << >> THEN 0 ELSE int(digits_of(s))

\* sorted(arr, key=parse_num): Python's sort is stable, each value goes
\* behind the values already placed whose key is not larger.
insert_sorted(out, v) ==
    LET before == {i \in DOMAIN out : parse_num(out[i]) <= parse_num(v)}
        n == IF before = {} THEN 0 ELSE CHOOSE i \in before : \A j \in before : j <= i
    IN SubSeq(out, 1, n) \o << v >> \o SubSeq(out, n + 1, Len(out))
RECURSIVE sorted(_)
sorted(a) == IF a = << >> THEN << >>
             ELSE insert_sorted(sorted(SubSeq(a, 1, Len(a) - 1)), a[Len(a)])

\* The call has not returned / has returned a list / has raised.
NotCalled == [state |-> "pending", value |-> << >>]
Returned(a) == [state |-> "returned", value |-> a]
Raised(e) == [state |-> e, value |-> << >>]

\* Lines 37-41.
numeric_sort(a) ==
    IF \E i \in DOMAIN a : parse_num_raises(a[i]) THEN Raised("ValueError")
    ELSE Returned(sorted(a))

\* ---------------------------------------------------------------- lookups
schedule_of(society) ==
    IF society \in DOMAIN schedule_rows THEN << schedule_rows[society] >> ELSE << >>

settings_of(society) ==
    IF society \in DOMAIN settings_rows THEN << settings_rows[society] >> ELSE << >>

\* The WHERE clause verify_code adds for the address fragments of the request.
address_filter(tower, flat, lane, house) ==
    IF Present(tower) /\ Present(flat) THEN [kind |-> "tower_flat", tower |-> tower, flat |-> flat]
    ELSE IF Present(lane) /\ Present(house) THEN [kind |-> "tower_flat", tower |-> lane, flat |-> house]
    ELSE IF Present(flat) THEN [kind |-> "flat", tower |-> Null, flat |-> flat]
    ELSE IF ~(Present(tower) \/ Present(flat) \/ Present(lane) \/ Present(house))
        THEN [kind |-> "all_null", tower |-> Null, flat |-> Null]
    ELSE [kind |-> "incomplete", tower |-> Null, flat |-> Null]

\* The WHERE clause verify_face adds for the address fragments of the request.
face_address_filter(tower, flat, lane, house) ==
    IF Present(tower) /\ Present(flat) THEN [kind |-> "tower_flat", tower |-> tower, flat |-> flat]
    ELSE IF Present(lane) /\ Present(house) THEN [kind |-> "tower_flat", tower |-> lane, flat |-> house]
    ELSE IF Present(flat) THEN [kind |-> "flat", tower |-> Null, flat |-> flat]
    ELSE IF ~(Present(tower) \/ Present(flat) \/ Present(lane) \/ Present(house))
        THEN [kind |-> "all_null", tower |-> Null, flat |-> Null]
    ELSE [kind |-> "incomplete", tower |-> Null, flat |-> Null]

\* Whether a households row satisfies the address part of the WHERE clause
\* (a NULL column equals no value).
address_matches(row, flt) ==
    CASE flt.kind = "tower_flat" ->
            row.tower # Null /\ row.flat # Null /\ row.tower = flt.tower /\ row.flat = flt.flat
      [] flt.kind = "flat" -> row.flat # Null /\ row.flat = flt.flat
      [] flt.kind = "all_null" ->
            row.tower = Null /\ row.flat = Null /\ row.lane = Null /\ row.house_number = Null
      [] OTHER -> FALSE

\* The rows the household query of verify_code returns.
code_candidates(d) ==
    {h \in HouseholdIds :
        /\ household_rows[h].society_name = d.society
        /\ household_rows[h].secret_code = d.secret_code
        /\ address_matches(household_rows[h], address_filter(d.tower, d.flat, d.lane, d.house))}

\* The rows the household query of verify_face returns.
face_candidates(d) ==
    {h \in HouseholdIds :
        /\ household_rows[h].society_name = d.society
        /\ household_rows[h].face_recognition_image # Null
        /\ address_matches(household_rows[h],
                           face_address_filter(d.tower, d.flat, d.lane, d.house))}

\* cur.fetchone(): one of the rows, or None.
fetchone(rows) == IF rows = {} THEN {Null} ELSE rows

\* proof_timestamp_str of a households row.
proof_timestamp(h) ==
    IF households[h].voted_in_cycle /\ households[h].voted_at # None
    THEN Some(strftime_ist(households[h].voted_at[1]))
    ELSE None

\* ------------------------------------------------------------- the inputs
AddressInputs ==
    { [tower |-> "T1", flat |-> "F1", lane |-> Null, house |-> Null],
      [tower |-> Null, flat |-> Null, lane |-> "T2", house |-> "F1"],
      [tower |-> Null, flat |-> Null, lane |-> "T2", house |-> "F2"],
      [tower |-> Null, flat |-> "F1", lane |-> Null, house |-> Null],
      [tower |-> Null, flat |-> "F2", lane |-> Null, house |-> Null],
      [tower |-> Null, flat |-> Null, lane |-> Null, house |-> Null],
      [tower |-> "T2", flat |-> "F2", lane |-> Null, house |-> Null],
      [tower |-> "T1", flat |-> Null, lane |-> Null, house |-> Null],
      [tower |-> "T1", flat |-> Null, lane |-> Null, house |-> "F1"],
      [tower |-> Null, flat |-> "F2", lane |-> "T2", house |-> Null] }

\* The request bodies: for S1 and S2, which have households, every address
\* with every credential; for the societies without a schedule, and for a
\* missing society, the addresses with tower T1.
AddressesFor(s) ==
    IF s \in {"S1", "S2"} THEN AddressInputs
    ELSE {a \in AddressInputs : a.tower = "T1"}

CodeRequests ==
    UNION { { [society |-> s, tower |-> a.tower, flat |-> a.flat, lane |-> a.lane,
               house |-> a.house, secret_code |-> k, mode |-> m] :
                a \in AddressesFor(s), k \in {"c1", "c2", Null}, m \in {"vote", "verify"} } :
            s \in Societies \cup {Null} }

Images == {"faceH1", "faceH2", "faceH5", "noface", "badbase64", "notimage"}

FaceRequests ==
    UNION { { [society |-> s, tower |-> a.tower, flat |-> a.flat, lane |-> a.lane,
               house |-> a.house, image_data |-> i] :
                a \in AddressesFor(s), i \in Images \cup {Null} } :
            s \in Societies \cup {Null} }

Selections == { << >>, << "Alice" >>, << "Alice", "Bob" >> }

\* What get_db_connection() and the statements of a request can do.
ConnStates == {"ok", "down", "error"}

\* ------------------------------------------------------------ verify_code
\* A handler's answer: the message, the household the session is bound to
\* (Null: the session is left as it is) and the proof timestamp sent back.
Rejected(msg) == [msg |-> msg, household_id |-> Null, voted_at |-> None]
Verified(h, proof) == [msg |-> "Verification successful", household_id |-> h, voted_at |-> proof]

\* verify_code_checks with the schedule window checked in both modes.
verify_code_checks_window_always(d, h, sched) ==
    LET start_time == fromisoformat(sched.start_time[1])
        end_time == fromisoformat(sched.end_time[1])
    IN
    IF is_admin_blocked[h] THEN Rejected("Blocked by admin")
    ELSE IF ~is_vote_allowed[h] THEN Rejected("Voting not allowed")
    ELSE IF ~(start_time <= now /\ now < end_time) THEN Rejected("Voting is closed")
    ELSE IF d.mode = "vote" /\ households[h].voted_in_cycle THEN Rejected("Already voted")
    ELSE Verified(h, proof_timestamp(h))

\* verify_code_checks with "already voted" looked at before the window.
verify_code_checks_voted_first(d, h, sched) ==
    LET start_time == fromisoformat(sched.start_time[1])
        end_time == fromisoformat(sched.end_time[1])
    IN
    IF is_admin_blocked[h] THEN Rejected("Blocked by admin")
    ELSE IF ~is_vote_allowed[h] THEN Rejected("Voting not allowed")
    ELSE IF d.mode = "vote" /\ households[h].voted_in_cycle THEN Rejected("Already voted")
    ELSE IF d.mode = "vote" /\ ~(start_time <= now /\ now < end_time)
        THEN Rejected("Voting is closed")
    ELSE Verified(h, proof_timestamp(h))

\* Lines 215-246, for the row h the query returned.
verify_code_checks(d, h, sched) ==
    LET start_time == fromisoformat(sched.start_time[1])
        end_time == fromisoformat(sched.end_time[1])
    IN
    IF is_admin_blocked[h] THEN Rejected("Blocked by admin")
    ELSE IF ~is_vote_allowed[h] THEN Rejected("Voting not allowed")
    ELSE IF d.mode = "vote" /\ ~(start_time <= now /\ now < end_time)
        THEN Rejected("Voting is closed")
    ELSE IF d.mode = "vote" /\ households[h].voted_in_cycle THEN Rejected("Already voted")
    ELSE Verified(h, proof_timestamp(h))

\* Lines 181-252: the answer to request d when the query returns row h.
verify_code_response(d, conn, h) ==
    LET sched == schedule_of(d.society)
        flt == address_filter(d.tower, d.flat, d.lane, d.house)
    IN
    IF ~Present(d.society) \/ ~Present(d.secret_code)
        THEN Rejected("Society and secret code required")
    ELSE IF conn = "down" THEN Rejected("DB connection error")
    ELSE IF conn = "error" THEN Rejected("Server error")
    ELSE IF sched = << >> \/ sched[1].start_time = None \/ sched[1].end_time = None
        THEN Rejected("Voting schedule not set")
    ELSE IF flt.kind = "incomplete" THEN Rejected("Incomplete household details")
    ELSE IF h = Null THEN Rejected("Invalid credentials")
    ELSE verify_code_checks(d, h, sched[1])

\* bound_session with session.clear() when the verification is rejected.
bound_session_cleared(c, society, a) ==
    IF a.household_id = Null THEN [session EXCEPT ![c] = NoBinding]
    ELSE [session EXCEPT ![c] = [household_id |-> a.household_id,
                                 society_name |-> society]]

\* Lines 231-232 and 295-296: the session of client c after answer a.
bound_session(c, society, a) ==
    IF a.household_id = Null THEN session
    ELSE [session EXCEPT ![c] = [household_id |-> a.household_id,
                                 society_name |-> society]]

\* What a verification answer does: a success binds the session of the
\* client; nothing else is written.
Answer(c, society, a) ==
    /\ session' = bound_session(c, society, a)
    /\ UNCHANGED << env, gate, sort, db, tx, accepted, picks >>

verify_code(c, d, conn) ==
    \E h \in fetchone(code_candidates(d)) :
        Answer(c, d.society, verify_code_response(d, conn, h))

\* ------------------------------------------------------------ verify_face
\* verify_face_match without the "except ValueError" clause of line 305.
verify_face_match_no_except(d, h) ==
    IF d.image_data \in {"noface", "badbase64", "notimage"} THEN Rejected("Server error")
    ELSE IF d.image_data = household_rows[h].face_recognition_image THEN Verified(h, None)
    ELSE Rejected("Face not recognized")

\* Lines 287-309: decoding the image and asking the embedding oracle.
\* DeepFace.represent(enforce_detection=True) raises ValueError for an image
\* without a face, and so does b64decode for text that is not base64 (line
\* 305); Image.open raises OSError for bytes that are no image (line 307).
verify_face_match(d, h) ==
    IF d.image_data \in {"noface", "badbase64"} THEN Rejected("No face detected")
    ELSE IF d.image_data = "notimage" THEN Rejected("Server error")
    ELSE IF d.image_data = household_rows[h].face_recognition_image THEN Verified(h, None)
    ELSE Rejected("Face not recognized")

\* verify_face_response with the face compared before the household's
\* voted_in_cycle, is_admin_blocked and is_vote_allowed are looked at.
verify_face_response_match_first(d, conn, h) ==
    LET sched == schedule_of(d.society)
        flt == face_address_filter(d.tower, d.flat, d.lane, d.house)
    IN
    IF ~Present(d.society) \/ ~Present(d.image_data)
        THEN Rejected("Society and image required")
    ELSE IF conn = "down" THEN Rejected("DB connection error")
    ELSE IF conn = "error" THEN Rejected("Server error")
    ELSE IF sched = << >> \/ sched[1].start_time = None \/ sched[1].end_time = None
        THEN Rejected("Server error")
    ELSE IF ~(fromisoformat(sched[1].start_time[1]) <= now
              /\ now < fromisoformat(sched[1].end_time[1]))
        THEN Rejected("Voting is closed")
    ELSE IF flt.kind = "incomplete" THEN Rejected("Incomplete household details")
    ELSE IF h = Null THEN Rejected("No face record found")
    ELSE IF verify_face_match(d, h).household_id = Null THEN verify_face_match(d, h)
    ELSE IF households[h].voted_in_cycle THEN Rejected("Already voted")
    ELSE IF is_admin_blocked[h] THEN Rejected("Blocked")
    ELSE IF ~is_vote_allowed[h] THEN Rejected("Voting not allowed")
    ELSE verify_face_match(d, h)

\* Lines 257-311: the answer to request d when the query returns row h.
verify_face_response(d, conn, h) ==
    LET sched == schedule_of(d.society)
        flt == face_address_filter(d.tower, d.flat, d.lane, d.house)
    IN
    IF ~Present(d.society) \/ ~Present(d.image_data)
        THEN Rejected("Society and image required")
    ELSE IF conn = "down" THEN Rejected("DB connection error")
    ELSE IF conn = "error" THEN Rejected("Server error")
    \* sched['start_time'] of no row, and .replace of a missing time, raise
    ELSE IF sched = << >> \/ sched[1].start_time = None \/ sched[1].end_time = None
        THEN Rejected("Server error")
    ELSE IF ~(fromisoformat(sched[1].start_time[1]) <= now
              /\ now < fromisoformat(sched[1].end_time[1]))
        THEN Rejected("Voting is closed")
    ELSE IF flt.kind = "incomplete" THEN Rejected("Incomplete household details")
    ELSE IF h = Null THEN Rejected("No face record found")
    ELSE IF households[h].voted_in_cycle THEN Rejected("Already voted")
    ELSE IF is_admin_blocked[h] THEN Rejected("Blocked")
    ELSE IF ~is_vote_allowed[h] THEN Rejected("Voting not allowed")
    ELSE verify_face_match(d, h)

verify_face(c, d, conn) ==
    \E h \in fetchone(face_candidates(d)) :
        Answer(c, d.society, verify_face_response(d, conn, h))

\* ----------------------------------------------------------------- ballot
\* Lines 316-345: the page or the flashed message the request ends with.
ballot_response(c, conn) ==
    IF session[c].household_id = Null THEN "Session expired"
    ELSE IF conn = "down" THEN "DB error"
    ELSE IF conn = "error" THEN "Internal Server Error"
    ELSE IF households[session[c].household_id].voted_in_cycle THEN "Already voted"
    ELSE "ballot.html"

\* session.clear() when the household has voted; nothing else is written.
ballot(c, conn) ==
    /\ session' = IF ballot_response(c, conn) = "Already voted"
                  THEN [session EXCEPT ![c] = NoBinding] ELSE session
    /\ UNCHANGED << env, gate, sort, db, tx, accepted, picks >>

\* ------------------------------------------------------------ submit_vote
InTx(r) == tx[r].pc \in {"settings", "upsert", "count"}

\* The slot a new request runs in: the first idle one.
FreeSlot(r) == tx[r].pc = "idle" /\ \A o \in Slots : o < r => tx[o].pc # "idle"

\* Whether two rows of votes with this key conflict on the unique index
\* (society_name, tower, contestant_name, is_archived): rows whose tower is
\* NULL conflict only when the index is declared NULLS NOT DISTINCT.
conflictable(k) == ~(nulls_distinct /\ k.tower = Null)

\* INSERT INTO votes .. VALUES (.., 1) ON CONFLICT (..) DO UPDATE SET
\* vote_count = votes.vote_count + 1, on the rows v.
upsert(v, k) ==
    IF conflictable(k) /\ v[k] # << >>
    THEN [v EXCEPT ![k] = << @[1] + 1 >>]
    ELSE [v EXCEPT ![k] = Append(@, 1)]

\* The loop "for c in selected" over the first n selections.
RECURSIVE upsert_selected(_, _, _, _, _)
upsert_selected(v, society, tower, selected, n) ==
    IF n = 0 THEN v
    ELSE upsert(upsert_selected(v, society, tower, selected, n - 1),
                [society_name |-> society, tower |-> tower,
                 contestant_name |-> selected[n]])

\* The upserts request r has made on key k and not yet committed.
pending_upserts(r, k) ==
    IF tx[r].pc \in {"upsert", "count"}
       /\ k.society_name = tx[r].society /\ k.tower = tx[r].tower
    THEN Cardinality({i \in 1..(tx[r].idx - 1) : tx[r].selected[i] = k.contestant_name})
    ELSE 0

\* The row of key k is locked by the transaction of another request.
vote_row_locked(r, k) ==
    conflictable(k) /\ \E o \in Slots \ {r} : pending_upserts(o, k) > 0

\* Lines 350-362: the answer that ends the request before its transaction
\* writes, or "" when it goes on.
submit_vote_precheck(c, selected, conn) ==
    IF session[c].household_id = Null THEN "Session expired"
    ELSE IF session[c].society_name = Null THEN "Missing society info"
    ELSE IF selected = << >> THEN "No contestants selected"
    ELSE IF conn = "down" THEN "DB error"
    ELSE IF conn = "error" THEN "Server error"
    ELSE IF households[session[c].household_id].voted_in_cycle THEN "Already voted"
    ELSE ""

\* Lines 350-363: the session binding, the request body, the connection and
\* the SELECT of the household row.
submit_vote_begin(c, selected, conn) ==
    IF submit_vote_precheck(c, selected, conn) # "" THEN UNCHANGED vars
    ELSE \E r \in Slots :
            /\ FreeSlot(r)
            /\ tx' = [tx EXCEPT ![r] = [pc |-> "settings", conn |-> "open", client |-> c,
                                        household_id |-> session[c].household_id,
                                        society |-> session[c].society_name,
                                        selected |-> selected, idx |-> 1,
                                        tower |-> household_rows[session[c].household_id].tower]]
            /\ UNCHANGED << env, gate, sort, db, session, accepted, picks >>

\* Abort without the conn.close() of the finally clause.
Abort_connection_left_open(r) ==
    /\ tx' = [tx EXCEPT ![r] = [IdleTx EXCEPT !.conn = "open"]]
    /\ UNCHANGED << env, gate, sort, db, session, accepted, picks >>

\* Request r ends without conn.commit(): the connection is closed and what
\* its transaction wrote is discarded.
Abort(r) ==
    /\ tx' = [tx EXCEPT ![r] = IdleTx]
    /\ UNCHANGED << env, gate, sort, db, session, accepted, picks >>

\* submit_vote_capacity with the guard voted_count > max_voters.
submit_vote_capacity_off_by_one(r) ==
    LET s == settings_of(tx[r].society) IN
    IF s = << >> THEN "Settings not found"
    ELSE IF voted_count[tx[r].society] > s[1].max_voters THEN "Max votes reached"
    ELSE ""

\* Lines 364-367: the answer of the capacity guard, or "" when it passes.
submit_vote_capacity(r) ==
    LET s == settings_of(tx[r].society) IN
    IF s = << >> THEN "Settings not found"
    ELSE IF voted_count[tx[r].society] >= s[1].max_voters THEN "Max votes reached"
    ELSE ""

\* Lines 364-367: the SELECT of the settings row and the capacity guard.
submit_vote_settings(r) ==
    /\ tx[r].pc = "settings"
    /\ IF submit_vote_capacity(r) # "" THEN Abort(r)
       ELSE /\ tx' = [tx EXCEPT ![r].pc = "upsert"]
            /\ UNCHANGED << env, gate, sort, db, session, accepted, picks >>

\* Lines 369-373: one upsert of the loop; it waits for the row's lock.
submit_vote_upsert(r) ==
    /\ tx[r].pc = "upsert"
    /\ ~vote_row_locked(r, [society_name |-> tx[r].society, tower |-> tx[r].tower,
                            contestant_name |-> tx[r].selected[tx[r].idx]])
    /\ tx' = [tx EXCEPT ![r].idx = @ + 1,
                        ![r].pc = IF tx[r].idx = Len(tx[r].selected) THEN "count" ELSE "upsert"]
    /\ UNCHANGED << env, gate, sort, db, session, accepted, picks >>

\* committed_households with the flag set and voted_at left as it was.
committed_households_flag_only(r) ==
    [households EXCEPT ![tx[r].household_id].voted_in_cycle = TRUE]

\* The three tables once the transaction of request r is committed.
committed_votes(r) ==
    upsert_selected(votes, tx[r].society, tx[r].tower, tx[r].selected, Len(tx[r].selected))
committed_voted_count(r) ==
    [voted_count EXCEPT ![tx[r].society] = @ + 1]
committed_households(r) ==
    [households EXCEPT ![tx[r].household_id] =
        [voted_in_cycle |-> TRUE, voted_at |-> Some(now)]]

\* popped_session when the binding survives the commit.
popped_session_kept(r) == session

\* Line 377: session.pop('household_id'), session.pop('society_name').
popped_session(r) == [session EXCEPT ![tx[r].client] = NoBinding]

\* Lines 374-379: UPDATE settings, UPDATE households with the timestamp,
\* conn.commit(), the session binding is popped.  The UPDATE of settings
\* waits for the row's lock; once it holds it the transaction waits for
\* nothing more and none of its writes is visible before the commit, so the
\* statements are one step, taken when the lock is free.
submit_vote_commit(r) ==
    /\ tx[r].pc = "count"
    /\ votes' = committed_votes(r)
    /\ voted_count' = committed_voted_count(r)
    /\ households' = committed_households(r)
    /\ session' = popped_session(r)
    /\ accepted' = [accepted EXCEPT ![tx[r].household_id] = @ + 1]
    /\ picks' = [k \in TallyKeys |-> picks[k] + pending_upserts(r, k)]
    /\ tx' = [tx EXCEPT ![r] = IdleTx]
    /\ UNCHANGED << env, gate, sort >>

\* rolled_back_votes when the upserts made so far stay (no rollback).
rolled_back_votes_partial(r) ==
    upsert_selected(votes, tx[r].society, tx[r].tower, tx[r].selected, tx[r].idx - 1)

\* The three tables once conn.rollback() has discarded what request r wrote.
rolled_back_votes(r) == votes
rolled_back_voted_count(r) == voted_count
rolled_back_households(r) == households

\* Lines 380-385: a statement or the commit raises; rollback, "Server error".
submit_vote_fail(r) ==
    /\ InTx(r)
    /\ votes' = rolled_back_votes(r)
    /\ voted_count' = rolled_back_voted_count(r)
    /\ households' = rolled_back_households(r)
    /\ tx' = [tx EXCEPT ![r] = IdleTx]
    /\ UNCHANGED << env, gate, sort, session, accepted, picks >>

\* ------------------------------------------------------------------ time
Tick ==
    /\ now < MaxTime
    /\ now' = now + 1
    /\ UNCHANGED << nulls_distinct, gate, sort, db, session, tx, accepted, picks >>

\* ------------------------------------------- the administrative surface
\* The households the administrator acts on while the voting runs.
AdminTargets == {"H1"}

\* The administrator blocks a household, or withdraws its permission to
\* vote: an UPDATE of one households row, committed at once.
admin_block(h) ==
    /\ ~is_admin_blocked[h]
    /\ is_admin_blocked' = [is_admin_blocked EXCEPT ![h] = TRUE]
    /\ UNCHANGED << env, sort, db, session, tx, accepted, picks, is_vote_allowed >>
admin_disallow(h) ==
    /\ is_vote_allowed[h]
    /\ is_vote_allowed' = [is_vote_allowed EXCEPT ![h] = FALSE]
    /\ UNCHANGED << env, sort, db, session, tx, accepted, picks, is_admin_blocked >>

\* ------------------------------------------------------- the state machine
\* The cycle is under way: H3 has cast its ballot, for Alice, at time 0.
FirstKey == [society_name |-> "S1", tower |-> Null, contestant_name |-> "Alice"]

StoreInit ==
    /\ now = 0
    /\ nulls_distinct \in BOOLEAN
    /\ households = [h \in HouseholdIds |->
                        IF h = "H3" THEN [voted_in_cycle |-> TRUE, voted_at |-> Some(0)]
                        ELSE [voted_in_cycle |-> FALSE, voted_at |-> None]]
    /\ voted_count = [s \in DOMAIN settings_rows |-> 1]
    /\ votes = [k \in TallyKeys |-> IF k = FirstKey THEN << 1 >> ELSE << >>]
    /\ session = [c \in Clients |-> NoBinding]
    /\ tx = [r \in Slots |-> IdleTx]
    /\ accepted = [h \in HouseholdIds |-> IF h = "H3" THEN 1 ELSE 0]
    /\ picks = [k \in TallyKeys |-> IF k = FirstKey THEN 1 ELSE 0]
    /\ is_admin_blocked = [h \in HouseholdIds |-> household_rows[h].is_admin_blocked]
    /\ is_vote_allowed = [h \in HouseholdIds |-> household_rows[h].is_vote_allowed]

\* No call of numeric_sort is under way.
Init ==
    /\ StoreInit
    /\ arr = << >>
    /\ sorted_arr = NotCalled

\* The requests that name a household by its address and its credential.
BindingCodeRequests ==
    {d \in CodeRequests : \E h \in code_candidates(d) :
        ~household_rows[h].is_admin_blocked /\ household_rows[h].is_vote_allowed}
BindingFaceRequests ==
    {d \in FaceRequests : \E h \in face_candidates(d) :
        /\ ~household_rows[h].is_admin_blocked /\ household_rows[h].is_vote_allowed
        /\ d.image_data = household_rows[h].face_recognition_image}

VerifyCode == \E c \in Clients, d \in BindingCodeRequests : verify_code(c, d, "ok")
VerifyFace == \E c \in Clients, d \in BindingFaceRequests : verify_face(c, d, "ok")
Ballot == \E c \in Clients, conn \in ConnStates : ballot(c, conn)
SubmitVoteBegin ==
    \E c \in Clients, selected \in Selections, conn \in ConnStates :
        submit_vote_begin(c, selected, conn)
SubmitVoteSettings == \E r \in Slots : submit_vote_settings(r)
SubmitVoteUpsert == \E r \in Slots : submit_vote_upsert(r)
SubmitVoteCommit == \E r \in Slots : submit_vote_commit(r)
SubmitVoteFail == \E r \in Slots : submit_vote_fail(r)

\* Requests of the workers, interleaved statement by statement.
Next ==
    \/ Tick
    \/ VerifyCode
    \/ VerifyFace
    \/ Ballot
    \/ SubmitVoteBegin
    \/ SubmitVoteSettings
    \/ SubmitVoteUpsert
    \/ SubmitVoteCommit
    \/ SubmitVoteFail

Spec == Init /\ [][Next]_vars

\* The store runs every statement that waits for nothing, and hands a row
\* lock to the statement waiting for it when the holder's transaction ends.
Fairness ==
    \A r \in Slots :
        /\ WF_vars(submit_vote_settings(r))
        /\ SF_vars(submit_vote_upsert(r))
        /\ WF_vars(submit_vote_commit(r))
FairSpec == Spec /\ Fairness

\* ------------------------------------------------- calls of numeric_sort
\* The flat and house numbers numeric_sort is given: F1, F3, F10, F01, 1F0,
\* A, B and F followed by a superscript two.
FlatValues ==
    { << "F", "1" >>, << "F", "3" >>, << "F", "1", "0" >>, << "F", "0", "1" >>,
      << "1", "F", "0" >>, << "A" >>, << "B" >>, << "F", "sup2" >> }
ArrInputs == UNION { [1..n -> FlatValues] : n \in 0..MaxArr }

SortInit ==
    /\ StoreInit
    /\ arr \in ArrInputs
    /\ sorted_arr = NotCalled

\* get_society_details calls numeric_sort(arr) (lines 120, 144, 162).
NumericSort ==
    /\ sorted_arr = NotCalled
    /\ sorted_arr' = numeric_sort(arr)
    /\ UNCHANGED << arr, env, gate, db, session, tx, accepted, picks >>

\* The list returned is sorted once more.
NumericSortAgain ==
    /\ sorted_arr.state = "returned"
    /\ arr' = sorted_arr.value
    /\ sorted_arr' = numeric_sort(sorted_arr.value)
    /\ UNCHANGED << env, gate, db, session, tx, accepted, picks >>

SortNext ==
    \/ NumericSort
    \/ NumericSortAgain
SortSpec == SortInit /\ [][SortNext]_vars

\* The voter-facing requests together with the administrator's changes.
AdminBlock == \E h \in AdminTargets : admin_block(h)
AdminDisallow == \E h \in AdminTargets : admin_disallow(h)
AdminNext ==
    \/ Next
    \/ AdminBlock
    \/ AdminDisallow
AdminSpec == Init /\ [][AdminNext]_vars

\* =========================================================== the claims
SocietyOf(h) == household_rows[h].society_name

RECURSIVE SumSeq(_)
SumSeq(q) == IF q = << >> THEN 0 ELSE Head(q) + SumSeq(Tail(q))

RECURSIVE SumOver(_, _)
SumOver(f, S) ==
    IF S = {} THEN 0
    ELSE LET x == CHOOSE y \in S : TRUE IN f[x] + SumOver(f, S \ {x})

\* All the votes counted by the rows of a society.
TallyTotal(v, s) ==
    SumOver([k \in TallyKeys |-> SumSeq(v[k])], {k \in TallyKeys : k.society_name = s})

\* Whether instant t lies in the voting window of a society with a schedule.
InWindow(s, t) ==
    /\ fromisoformat(schedule_rows[s].start_time[1]) <= t
    /\ t < fromisoformat(schedule_rows[s].end_time[1])

ScheduleSet(s) ==
    /\ s \in DOMAIN schedule_rows
    /\ schedule_rows[s].start_time # None
    /\ schedule_rows[s].end_time # None

\* The requests whose household query returns the row of household h.
CodeRequestsFor == [h \in HouseholdIds |-> {d \in CodeRequests : h \in code_candidates(d)}]
FaceRequestsFor == [h \in HouseholdIds |-> {d \in FaceRequests : h \in face_candidates(d)}]

\* C1: of the concurrent submit_vote requests of one household exactly one
\* succeeds: no household has more than one accepted ballot.
C1_ExactlyOneSuccess == \A h \in HouseholdIds : accepted[h] <= 1

\* C2: submit_vote is all-or-nothing.  A step that changes a table is the
\* commit of one request and changes the three tables together (the
\* household is marked, voted_count grows by one, tallies are added); a
\* request that ends without success leaves the three tables as they were;
\* and in every state tallies, voted_count and flags account for the accepted
\* ballots and nothing else.
C2_CommitIsWhole ==
    (db' # db) =>
        \E h \in HouseholdIds :
            /\ households'[h].voted_in_cycle /\ households'[h].voted_at # None
            /\ \A o \in HouseholdIds \ {h} : households'[o] = households[o]
            /\ voted_count' = [voted_count EXCEPT ![SocietyOf(h)] = @ + 1]
            /\ TallyTotal(votes', SocietyOf(h)) > TallyTotal(votes, SocietyOf(h))
            /\ accepted'[h] = accepted[h] + 1
C2_FailureIsNothing ==
    \A r \in Slots :
        (tx[r].pc # "idle" /\ tx'[r].pc = "idle" /\ accepted' = accepted) => db' = db
C2_NoPartialState ==
    /\ \A s \in DOMAIN voted_count :
        /\ voted_count[s] = SumOver(accepted, {h \in HouseholdIds : SocietyOf(h) = s})
        /\ TallyTotal(votes, s) = SumOver(picks, {k \in TallyKeys : k.society_name = s})
    /\ \A h \in HouseholdIds : households[h].voted_in_cycle <=> accepted[h] > 0
C2_AllOrNothing ==
    /\ [][C2_CommitIsWhole /\ C2_FailureIsNothing]_vars
    /\ []C2_NoPartialState

\* C2 witness: a request has made all the upserts of a two-candidate ballot,
\* none of them committed, and its household is not marked.
C2_Witness ==
    \E r \in Slots :
        /\ tx[r].pc = "count" /\ Len(tx[r].selected) = 2
        /\ ~households[tx[r].household_id].voted_in_cycle
        /\ TallyTotal(votes, tx[r].society) = 1

\* C3: in every committed state voted_in_cycle holds exactly when voted_at
\* is not null.
C3_FlagIffTimestamp ==
    \A h \in HouseholdIds : households[h].voted_in_cycle <=> households[h].voted_at # None

\* C3 witness: a household that had not voted at the start has voted.
C3_Witness ==
    \E h \in HouseholdIds \ {"H3"} :
        households[h].voted_in_cycle /\ households[h].voted_at # None /\ accepted[h] = 1

\* C4: every key that was ever selected has exactly one row, whose count is
\* the number of times it was selected; the other keys have no row.
C4_OneRowPerKey ==
    \A k \in TallyKeys :
        IF picks[k] = 0 THEN votes[k] = << >> ELSE votes[k] = << picks[k] >>

\* C5: a request that reaches the capacity guard when voted_count has
\* reached max_voters is answered "Max votes reached", and the step that
\* ends it changes no table.
C5_GuardHit(r) ==
    /\ tx[r].pc = "settings"
    /\ tx[r].society \in DOMAIN settings_rows
    /\ voted_count[tx[r].society] >= settings_rows[tx[r].society].max_voters
C5_Rejects == \A r \in Slots : C5_GuardHit(r) => submit_vote_capacity(r) = "Max votes reached"
C5_NothingWritten ==
    \A r \in Slots :
        (C5_GuardHit(r) /\ tx'[r] # tx[r]) =>
            /\ tx'[r] = IdleTx
            /\ db' = db
            /\ accepted' = accepted
C5_CapacityGuard == []C5_Rejects /\ [][C5_NothingWritten]_vars

\* C5 witness: a request of a household that has not voted stands at the
\* guard when voted_count equals max_voters.
C5_Witness ==
    \E r \in Slots :
        /\ C5_GuardHit(r)
        /\ voted_count[tx[r].society] = settings_rows[tx[r].society].max_voters
        /\ ~households[tx[r].household_id].voted_in_cycle

\* C6: a submit_vote request that arrives outside [start_time, end_time) is
\* rejected: no request whose other preconditions hold (a bound session, a
\* household that has not voted, a selection, capacity left) enters its
\* transaction at such a time.
C6_BeginsInWindow ==
    \A r \in Slots :
        (/\ tx[r].pc = "idle" /\ tx'[r].pc = "settings"
         /\ tx'[r].society \in DOMAIN settings_rows
         /\ voted_count[tx'[r].society] < settings_rows[tx'[r].society].max_voters)
            => InWindow(tx'[r].society, now)
C6_SubmitInWindowOnly == [][C6_BeginsInWindow]_vars

\* C7: a verify-only request for a household that has voted and has a
\* voted_at, and that passes checks 1-4, succeeds and carries the stored
\* voted_at, whatever the time; and a verify_code step changes no table.
VerifyOnlyRequests ==
    {d \in CodeRequests : d.mode = "verify" /\ Present(d.society) /\ Present(d.secret_code)}
C7_Applies(d, h) ==
    /\ ScheduleSet(d.society)
    /\ ~is_admin_blocked[h] /\ is_vote_allowed[h]
    /\ households[h].voted_in_cycle /\ households[h].voted_at # None
C7_ReturnsProof ==
    \A d \in VerifyOnlyRequests : \A h \in code_candidates(d) :
        C7_Applies(d, h) =>
            LET a == verify_code_response(d, "ok", h) IN
            /\ a.msg = "Verification successful"
            /\ a.household_id = h
            /\ a.voted_at # None
            /\ strptime_ist(a.voted_at[1]) = households[h].voted_at[1]
C7_WritesNothing ==
    (db' # db) => ~(\E c \in Clients, d \in VerifyOnlyRequests : verify_code(c, d, "ok"))
C7_VerifyOnlyProof == []C7_ReturnsProof /\ [][C7_WritesNothing]_vars

\* C7 witness: after the window has closed, a household that voted during
\* this run gets its proof, and the session is bound to it.
C7_Witness ==
    /\ now >= 2
    /\ \E c \in Clients, d \in VerifyOnlyRequests : \E h \in code_candidates(d) \ {"H3"} :
        /\ C7_Applies(d, h)
        /\ verify_code_response(d, "ok", h).voted_at = Some(strftime_ist(households[h].voted_at[1]))
        /\ session[c].household_id = h

\* C8: once set, voted_at of a household never changes.
C8_VotedAtKept ==
    \A h \in HouseholdIds :
        households[h].voted_at # None => households'[h].voted_at = households[h].voted_at
C8_VotedAtImmutable == [][C8_VotedAtKept]_vars

\* C9: the answer of verify_code is that of the first failing check, in the
\* order schedule, credentials, blocked, not allowed, window, already voted;
\* it succeeds when none fails; verify-only mode skips the last two.
C9_Checks(d, h) ==
    << << ~ScheduleSet(d.society), "Voting schedule not set" >>,
       << h = Null, "Invalid credentials" >>,
       << h # Null /\ is_admin_blocked[h], "Blocked by admin" >>,
       << h # Null /\ ~is_vote_allowed[h], "Voting not allowed" >>,
       << d.mode = "vote" /\ ScheduleSet(d.society) /\ ~InWindow(d.society, now),
          "Voting is closed" >>,
       << d.mode = "vote" /\ h # Null /\ households[h].voted_in_cycle, "Already voted" >> >>
C9_Expected(d, h) ==
    LET checks == C9_Checks(d, h)
        failing == {i \in 1..Len(checks) : checks[i][1]}
    IN IF failing = {} THEN "Verification successful"
       ELSE checks[CHOOSE i \in failing : \A j \in failing : i <= j][2]
C9_WellFormed ==
    {d \in CodeRequests :
        /\ Present(d.society) /\ Present(d.secret_code)
        /\ address_filter(d.tower, d.flat, d.lane, d.house).kind # "incomplete"}
C9_CheckOrder ==
    \A d \in C9_WellFormed : \A h \in fetchone(code_candidates(d)) :
        LET a == verify_code_response(d, "ok", h) IN
        /\ a.msg = C9_Expected(d, h)
        /\ (a.household_id # Null) <=> (a.msg = "Verification successful")

\* C9 witness: a household that voted during this run is refused in vote mode
\* as "Already voted" while the window is open, and as "Voting is closed"
\* once it has closed.
C9_Witness ==
    \E d \in C9_WellFormed : \E h \in code_candidates(d) \ {"H3"} :
        /\ d.mode = "vote" /\ households[h].voted_in_cycle
        /\ verify_code_response(d, "ok", h).msg =
              IF InWindow(d.society, now) THEN "Already voted" ELSE "Voting is closed"
        /\ now >= 2

\* C10: both verify_code and verify_face answer a request for a society
\* without a configured schedule with "Voting schedule not set", and bind no
\* session.
C10_ScheduleNotSet ==
    /\ \A d \in CodeRequests : \A h \in fetchone(code_candidates(d)) :
        (Present(d.society) /\ Present(d.secret_code) /\ ~ScheduleSet(d.society)) =>
            verify_code_response(d, "ok", h) = Rejected("Voting schedule not set")
    /\ \A d \in FaceRequests : \A h \in fetchone(face_candidates(d)) :
        (Present(d.society) /\ Present(d.image_data) /\ ~ScheduleSet(d.society)) =>
            verify_face_response(d, "ok", h) = Rejected("Voting schedule not set")

\* C11: submit_vote rejects, without writing, an empty selection and a
\* selection longer than the society's max_candidates_selection: no such
\* request enters its transaction, and one commit adds at most
\* max_candidates_selection to the tally counts of the society.
C11_Admitted(r) == tx[r].pc = "idle" /\ tx'[r].pc = "settings"
C11_SelectionChecked ==
    \A r \in Slots :
        (C11_Admitted(r) /\ tx'[r].society \in DOMAIN settings_rows) =>
            /\ Len(tx'[r].selected) >= 1
            /\ Len(tx'[r].selected) <= settings_rows[tx'[r].society].max_candidates_selection
C11_CommitBounded ==
    \A s \in DOMAIN settings_rows :
        TallyTotal(votes', s) - TallyTotal(votes, s) <= settings_rows[s].max_candidates_selection
C11_SelectionBound == [][C11_SelectionChecked /\ C11_CommitBounded]_vars

\* C12: submit_vote commits only for the household a successful verification
\* bound to the session: a binding appears only in a step in which a
\* verification answers success for that household, a request enters its
\* transaction with the household of its session, and a commit marks the
\* household of its request.  A request without a binding is answered
\* "Session expired" and changes nothing.  A commit clears the binding of its
\* session, so that a later request without a new verification is refused.
C12_BoundByVerification ==
    \A c \in Clients :
        (session'[c] # session[c] /\ session'[c] # NoBinding) =>
            LET h == session'[c].household_id IN
            \/ \E d \in CodeRequestsFor[h] :
                    /\ session'[c].society_name = d.society
                    /\ verify_code_response(d, "ok", h) = Verified(h, proof_timestamp(h))
            \/ \E d \in FaceRequestsFor[h] :
                    /\ session'[c].society_name = d.society
                    /\ verify_face_response(d, "ok", h) = Verified(h, None)
C12_RequestOfSession ==
    \A r \in Slots :
        (tx[r].pc = "idle" /\ tx'[r].pc # "idle") =>
            /\ session[tx'[r].client].household_id # Null
            /\ tx'[r].household_id = session[tx'[r].client].household_id
            /\ tx'[r].society = session[tx'[r].client].society_name
C12_CommitOfRequest ==
    (db' # db) =>
        \E r \in Slots :
            /\ tx[r].pc = "count" /\ tx'[r] = IdleTx
            /\ \A h \in HouseholdIds \ {tx[r].household_id} : households'[h] = households[h]
            /\ accepted' = [accepted EXCEPT ![tx[r].household_id] = @ + 1]
            /\ session'[tx[r].client] = NoBinding
C12_Unbound ==
    \A c \in Clients : session[c].household_id = Null =>
        \A selected \in Selections, conn \in ConnStates :
            submit_vote_precheck(c, selected, conn) = "Session expired"
C12_SessionBinding ==
    /\ [][C12_BoundByVerification /\ C12_RequestOfSession /\ C12_CommitOfRequest]_vars
    /\ []C12_Unbound

\* C12 witness: a household has cast its ballot during this run, its session
\* has lost the binding and no request is in flight: a further submit_vote
\* is answered "Session expired".
C12_Witness ==
    /\ \E h \in HouseholdIds \ {"H3"} : accepted[h] = 1
    /\ \A c \in Clients : session[c] = NoBinding
    /\ \A r \in Slots : tx[r] = IdleTx
    /\ submit_vote_precheck("c1", << "Alice" >>, "ok") = "Session expired"

\* C13: no ballot is committed for a household that is blocked by the
\* administrator or not allowed to vote at the moment of the commit, also
\* when the flag changed after the household was verified.
C13_CommitOfEligible ==
    \A h \in HouseholdIds :
        (accepted'[h] > accepted[h]) => (~is_admin_blocked[h] /\ is_vote_allowed[h])
C13_GateAtCommit == [][C13_CommitOfEligible]_vars

\* C14: for every combination of present and absent address fragments both
\* verifications build the same predicate: tower and flat present -> both
\* matched; else lane and house present -> tower = lane and flat = house;
\* else only flat present -> flat alone; else none present -> the four
\* address columns null; every other combination is refused as "Incomplete
\* household details", without a lookup and without a session binding.
C14_Combinations ==
    [tower : {"T1", Null}, flat : {"F2", Null}, lane : {"T2", Null}, house : {"F1", Null}]
C14_Expected(a) ==
    IF Present(a.tower) /\ Present(a.flat)
        THEN [kind |-> "tower_flat", tower |-> a.tower, flat |-> a.flat]
    ELSE IF Present(a.lane) /\ Present(a.house)
        THEN [kind |-> "tower_flat", tower |-> a.lane, flat |-> a.house]
    ELSE IF Present(a.flat) /\ ~Present(a.tower) /\ ~Present(a.lane) /\ ~Present(a.house)
        THEN [kind |-> "flat", tower |-> Null, flat |-> a.flat]
    ELSE IF ~Present(a.tower) /\ ~Present(a.flat) /\ ~Present(a.lane) /\ ~Present(a.house)
        THEN [kind |-> "all_null", tower |-> Null, flat |-> Null]
    ELSE [kind |-> "incomplete", tower |-> Null, flat |-> Null]
C14_SamePredicate ==
    \A a \in C14_Combinations :
        /\ address_filter(a.tower, a.flat, a.lane, a.house) = C14_Expected(a)
        /\ face_address_filter(a.tower, a.flat, a.lane, a.house) = C14_Expected(a)
C14_IncompleteRefused ==
    /\ \A d \in CodeRequests : \A h \in fetchone(code_candidates(d)) :
        (/\ Present(d.society) /\ Present(d.secret_code) /\ ScheduleSet(d.society)
         /\ C14_Expected(d).kind = "incomplete")
            => verify_code_response(d, "ok", h) = Rejected("Incomplete household details")
    /\ \A d \in FaceRequests : \A h \in fetchone(face_candidates(d)) :
        (/\ Present(d.society) /\ Present(d.image_data) /\ ScheduleSet(d.society)
         /\ InWindow(d.society, now) /\ C14_Expected(d).kind = "incomplete")
            => verify_face_response(d, "ok", h) = Rejected("Incomplete household details")
C14_AddressPredicate == C14_SamePredicate /\ C14_IncompleteRefused

\* C15: a verify_face request that reaches the embedding oracle with an image
\* in which no face is found is answered "No face detected"; an image of
\* another face is answered "Face not recognized" and bytes that are no image
\* "Server error"; none of the three answers binds the session.
C15_ReachesOracle(d, h) ==
    /\ Present(d.society) /\ Present(d.image_data)
    /\ ScheduleSet(d.society) /\ InWindow(d.society, now)
    /\ h \in face_candidates(d)
    /\ ~households[h].voted_in_cycle /\ ~is_admin_blocked[h] /\ is_vote_allowed[h]
C15_Answers ==
    \A h \in HouseholdIds : \A d \in FaceRequestsFor[h] :
        C15_ReachesOracle(d, h) =>
            LET a == verify_face_response(d, "ok", h) IN
            /\ d.image_data = "noface" => a = Rejected("No face detected")
            /\ d.image_data = "notimage" => a = Rejected("Server error")
            /\ (d.image_data \in {"faceH1", "faceH2", "faceH5"}
                /\ d.image_data # household_rows[h].face_recognition_image)
                    => a = Rejected("Face not recognized")
            /\ a.msg \in {"No face detected", "Face not recognized", "Server error"}
                    => a.household_id = Null
C15_NoFaceDetected == C15_Answers

\* C15 witness: H1 has voted during this run and the window is open; a
\* request for H2 with an image without a face reaches the oracle and is
\* answered "No face detected", while the session is not bound to H2.
C15_Witness ==
    /\ accepted["H1"] = 1
    /\ \E d \in FaceRequestsFor["H2"] :
        /\ d.image_data = "noface" /\ C15_ReachesOracle(d, "H2")
        /\ verify_face_response(d, "ok", "H2") = Rejected("No face detected")
    /\ \A c \in Clients : session[c].household_id # "H2"

\* C16: a request that has acquired a connection ends, and when it has ended
\* its connection is closed and nothing of its transaction is left: the
\* connection is open exactly while the request runs, a request that is over
\* holds no uncommitted write, and every request in flight eventually is over.
C16_Released ==
    \A r \in Slots :
        /\ tx[r].pc # "idle" => tx[r].conn = "open"
        /\ tx[r].pc = "idle" =>
            /\ tx[r].conn = Null
            /\ \A k \in TallyKeys : pending_upserts(r, k) = 0
C16_Terminates == \A r \in Slots : (tx[r].pc # "idle") ~> (tx[r].pc = "idle")
C17_Key(v) ==
    LET ds == SelectSeq(v, LAMBDA ch : ch \notin Letters) IN
    IF ds = << >> THEN 0 ELSE int(ds)
C17_StableSortOf(out, a) ==
    /\ Len(out) = Len(a)
    /\ \E p \in [DOMAIN a -> DOMAIN a] :
        /\ \A i, j \in DOMAIN a : i # j => p[i] # p[j]
        /\ \A i \in DOMAIN a : out[i] = a[p[i]]
        /\ \A i, j \in DOMAIN a :
            i < j => \/ C17_Key(out[i]) < C17_Key(out[j])
                     \/ C17_Key(out[i]) = C17_Key(out[j]) /\ p[i] < p[j]
C17_NumericSort ==
    sorted_arr # NotCalled =>
        /\ sorted_arr.state = "returned"
        /\ C17_StableSortOf(sorted_arr.value, arr)
        /\ numeric_sort(sorted_arr.value) = sorted_arr

\* C18: the answer of verify_face is that of the first failing check in the
\* order window, household with a template found, already voted, blocked,
\* not allowed; only when none fails is the image compared.  Whatever the
\* image, a request that fails one of them gets that check's reason and no
\* session binding, and a household without a template is never a candidate.
C18_WellFormed ==
    {d \in FaceRequests :
        /\ Present(d.society) /\ Present(d.image_data) /\ ScheduleSet(d.society)
        /\ face_address_filter(d.tower, d.flat, d.lane, d.house).kind # "incomplete"}
C18_Checks(d, h) ==
    << << ~InWindow(d.society, now), "Voting is closed" >>,
       << h = Null, "No face record found" >>,
       << h # Null /\ households[h].voted_in_cycle, "Already voted" >>,
       << h # Null /\ is_admin_blocked[h], "Blocked" >>,
       << h # Null /\ ~is_vote_allowed[h], "Voting not allowed" >> >>
C18_FirstFailing(d, h) ==
    LET checks == C18_Checks(d, h)
        failing == {i \in 1..Len(checks) : checks[i][1]}
    IN IF failing = {} THEN ""
       ELSE checks[CHOOSE i \in failing : \A j \in failing : i <= j][2]
C18_Order ==
    \A d \in C18_WellFormed : \A h \in fetchone(face_candidates(d)) :
        LET a == verify_face_response(d, "ok", h)
            reason == C18_FirstFailing(d, h)
        IN
        /\ h # Null => household_rows[h].face_recognition_image # Null
        /\ IF reason # ""
           THEN a = Rejected(reason)
           ELSE /\ a.msg \in {"Verification successful", "Face not recognized",
                              "No face detected", "Server error"}
                /\ a.household_id # Null <=>
                      d.image_data = household_rows[h].face_recognition_image
C18_NoTemplateNoCandidate ==
    \A h \in HouseholdIds :
        household_rows[h].face_recognition_image = Null => FaceRequestsFor[h] = {}
C18_FaceCheckOrder == [](C18_Order /\ C18_NoTemplateNoCandidate)

\* C18 witness: H1 has voted during this run, the window is still open, and a
\* request with H1's address and H1's own face is answered "Already voted".
C18_Witness ==
    /\ accepted["H1"] = 1 /\ households["H1"].voted_in_cycle
    /\ InWindow("S1", now)
    /\ \E d \in FaceRequestsFor["H1"] :
        /\ d.image_data = household_rows["H1"].face_recognition_image
        /\ verify_face_response(d, "ok", "H1") = Rejected("Already voted")

\* C19: in every committed state the voted_count of a society is at most its
\* max_voters, however the submit_vote requests of different households of
\* the society interleave (no household has cast more than one ballot).
C19_WithinCapacity ==
    (\A h \in HouseholdIds : accepted[h] <= 1) =>
        \A s \in DOMAIN settings_rows : voted_count[s] <= settings_rows[s].max_voters

\* C20: voted_count never decreases, and its growth since the start of the
\* cycle is the number of households of the society whose voted_in_cycle
\* turned true since then: a commit adds exactly 1 and marks one household,
\* and a request that is refused or fails leaves it as it was.
C20_TurnedTrue(s) ==
    Cardinality({h \in HouseholdIds \ {"H3"} : SocietyOf(h) = s /\ households[h].voted_in_cycle})
C20_Counted == \A s \in DOMAIN settings_rows : voted_count[s] - 1 = C20_TurnedTrue(s)
C20_Monotone ==
    \A s \in DOMAIN settings_rows :
        /\ voted_count'[s] >= voted_count[s]
        /\ voted_count'[s] # voted_count[s] =>
            /\ voted_count'[s] = voted_count[s] + 1
            /\ \E h \in HouseholdIds :
                SocietyOf(h) = s /\ ~households[h].voted_in_cycle /\ households'[h].voted_in_cycle
C20_VotedCount == []C20_Counted /\ [][C20_Monotone]_vars

\* C21: a verification writes no durable state and binds the session only
\* when it succeeds: no step of verify_code or verify_face, whatever the
\* request and the state of the connection, changes a row of households,
\* settings or votes; and the session after an answer other than
\* "Verification successful" (a rejection of any check, "DB connection
\* error", "Server error", "No face detected") is the session before it,
\* household and society alike, while a success binds exactly the household
\* found and the society of the request.  The cases are the requests with
\* each row their household query can return (None when it returns no row).
C21_CodeCases ==
    UNION { { << d, h >> : h \in fetchone(code_candidates(d)) } : d \in CodeRequests }
C21_FaceCases ==
    UNION { { << d, h >> : h \in fetchone(face_candidates(d)) } : d \in FaceRequests }
C21_NoDurableWrite ==
    (db' # db \/ gate' # gate) =>
        ~(\E c \in Clients, conn \in ConnStates :
            \/ \E p \in C21_CodeCases :
                    Answer(c, p[1].society, verify_code_response(p[1], conn, p[2]))
            \/ \E p \in C21_FaceCases :
                    Answer(c, p[1].society, verify_face_response(p[1], conn, p[2])))
C21_Outcome(c, society, h, a) ==
    LET after == bound_session(c, society, a) IN
    IF a.msg = "Verification successful"
    THEN h # Null /\ after[c] = [household_id |-> h, society_name |-> society]
    ELSE after = session
C21_RejectedKeepsBinding ==
    \A c \in Clients :
        /\ \A p \in C21_CodeCases : \A conn \in ConnStates :
                LET a == verify_code_response(p[1], conn, p[2])
                IN C21_Outcome(c, p[1].society, p[2], a)
        /\ \A p \in C21_FaceCases : \A conn \in ConnStates :
                LET a == verify_face_response(p[1], conn, p[2])
                IN C21_Outcome(c, p[1].society, p[2], a)
C21_VerificationFrame == []C21_RejectedKeepsBinding /\ [][C21_NoDurableWrite]_vars

\* C21 witness: the session is bound to H2 after H1 has cast its ballot in
\* this run; a vote-mode verification for H1 is now rejected with "Already
\* voted", a request over a failing connection with "Server error", and
\* either leaves the binding to H2 in place.
C21_Witness ==
    /\ accepted["H1"] = 1 /\ households["H1"].voted_in_cycle
    /\ session["c1"].household_id = "H2"
    /\ InWindow("S1", now)
    /\ \E d \in CodeRequestsFor["H1"] :
        /\ d.mode = "vote"
        /\ verify_code_response(d, "ok", "H1") = Rejected("Already voted")
        /\ verify_code_response(d, "error", "H1") = Rejected("Server error")
        /\ bound_session("c1", d.society, verify_code_response(d, "ok", "H1")) = session

====
